---- MODULE Spec2Model ----
(***************************************************************************)
(* Dispatch optimisation of the remote microgrid (src/src/optimization.py) *)
(* and the monthly batch loop that drives it (src/run_annual_analysis.py). *)
(*                                                                         *)
(* Representation of the program's numbers (all integers):                 *)
(*   - powers and energies are in kW / kWh; the continuous decision        *)
(*     variables are enumerated on the grid of multiples of 50 kW;         *)
(*   - solar_pu is in percent, battery_efficiency is a fraction            *)
(*     [num, den]; bat_soc is held in units of 1/SocScale kWh so that the  *)
(*     recurrence soc + charge*eff - discharge/eff is exact;               *)
(*   - diesel_intercept_L_hr and diesel_slope_L_kwh are in 1/100 L,        *)
(*     fuel_price_per_L and the effective price in 1e-5 $ per litre.       *)
(***************************************************************************)
EXTENDS Integers, Sequences, FiniteSets, TLC

VARIABLES
    cfg,          \* the caller's configuration dictionary (run_annual_analysis.py:28)
    config,       \* MicrogridOptimizer.config
    df_full,      \* the loaded data set: rows [month, hour, load_kw, solar_pu]
    months,       \* df_full.index.month.unique()
    mi,           \* position of the for-loop in months
    pc,           \* control point of main / build_and_solve
    df_horizon,   \* argument of the build_and_solve call in progress
    model,        \* the ConcreteModel of the call in progress
    sol,          \* variable values loaded into the model by the solver
    result,       \* what solver.solve returned
    res,          \* the result table of the call in progress
    annual_res,   \* list of result tables collected by the loop
    totals,       \* df_opt-derived totals (opt_fuel) once consolidated
    error,        \* the exception that ended the run, if any
    caller        \* "annual": run_annual_analysis.main; "direct": a single call

vars == <<cfg, config, df_full, months, mi, pc, df_horizon, model, sol, result,
          res, annual_res, totals, error, caller>>

\* Python's None for the values that are tables, models or dictionaries
None == <<>>

\* no exception has been raised
NoError == "NoError"

-----------------------------------------------------------------------------
(* Bounds of the model *)

MaxLevel == 10      \* decision variables range over 0, 50, ..., 50 * MaxLevel kW
MaxMonths == 2      \* months in a multi-month data set

-----------------------------------------------------------------------------
(* Domains of the pyomo variables *)

Binary == {0, 1}

NonNegativeReals == {50 * k : k \in 0..MaxLevel}

-----------------------------------------------------------------------------
(* Configuration *)

DefaultConfig ==
    [diesel_capacity_kw    |-> 500,
     diesel_min_stable_kw  |-> 150,
     diesel_intercept_L_hr |-> 1500,
     diesel_slope_L_kwh    |-> 24,
     fuel_price_per_L      |-> 220000,
     carbon_tax_per_ton    |-> 95,
     battery_capacity_kwh  |-> 1000,
     battery_power_kw      |-> 250,
     battery_efficiency    |-> [num |-> 19, den |-> 20],
     solar_capacity_kw     |-> 400]

\* MicrogridOptimizer.__init__: self.config = config or {defaults}
init(c) == IF c = None THEN DefaultConfig ELSE c

\* dict.get(key, default)
get(c, key, default) == IF key \in DOMAIN c THEN c[key] ELSE default

\* keys read with self.config[...] while the model is built
RequiredKeys ==
    {"diesel_min_stable_kw", "diesel_capacity_kw", "battery_capacity_kwh",
     "battery_efficiency", "battery_power_kw", "fuel_price_per_L",
     "diesel_intercept_L_hr", "diesel_slope_L_kwh"}

-----------------------------------------------------------------------------
(* Model parameters *)

len(df) == Len(df)

solar_cap(c) == get(c, "solar_capacity_kw", 400)

\* df_horizon['solar_pu'].values * solar_cap, indexed 0..T-1
available_solar(c, df) ==
    [t \in 0..(len(df) - 1) |-> (df[t + 1].solar_pu * solar_cap(c)) \div 100]

load_demand(df) == [t \in 0..(len(df) - 1) |-> df[t + 1].load_kw]

eff(c) == c.battery_efficiency

\* bat_soc is stored multiplied by SocScale
SocScale(c) == 2 * eff(c).num * eff(c).den

\* The mutant: the state of charge the previous horizon ended with is carried over.
initial_soc_carried(c) ==
    IF annual_res # <<>>
    THEN LET last == annual_res[Len(annual_res)]
         IN  last[Len(last)].bat_soc
    ELSE (SocScale(c) * c.battery_capacity_kwh) \div 2

\* initial_soc = 0.5 * battery_capacity_kwh
initial_soc(c) == (SocScale(c) * c.battery_capacity_kwh) \div 2

base_price(c) == c.fuel_price_per_L

carbon_adder(c) == 268 * get(c, "carbon_tax_per_ton", 0)

effective_price(c) == base_price(c) + carbon_adder(c)

\* The mutant: the carbon adder is left out of the intercept cost.
intercept_cost_base(c) == c.diesel_intercept_L_hr * base_price(c)

intercept_cost(c) == c.diesel_intercept_L_hr * effective_price(c)

slope_cost(c) == c.diesel_slope_L_kwh * effective_price(c)

\* The parameters captured by the ConcreteModel of one call
ConcreteModel(c, df) ==
    [T                |-> len(df),
     available_solar  |-> available_solar(c, df),
     load_demand      |-> load_demand(df),
     config           |-> c,
     initial_soc      |-> initial_soc(c),
     eff              |-> eff(c),
     intercept_cost   |-> intercept_cost(c),
     slope_cost       |-> slope_cost(c)]

-----------------------------------------------------------------------------
(* Decision variables: m maps each t in model.T to the values at t *)

Var(s, g, c, d, soc, k) ==
    [gen_status |-> s, gen_power |-> g, bat_charge |-> c,
     bat_discharge |-> d, bat_soc |-> soc, solar_curtailed |-> k]

\* m with the values v at index t
Put(m, t, v) == (t :> v) @@ m

-----------------------------------------------------------------------------
(* Constraints, P being the model's parameters *)

\* The mutant: curtailed solar is left out of the balance.
energy_balance_no_curtailment(P, m, t) ==
    m[t].gen_power + m[t].bat_discharge + P.available_solar[t]
        = P.load_demand[t] + m[t].bat_charge

\* 1. Energy balance
energy_balance(P, m, t) ==
    m[t].gen_power + m[t].bat_discharge
            + (P.available_solar[t] - m[t].solar_curtailed)
        = P.load_demand[t] + m[t].bat_charge

\* The mutant: the minimum stable load is not tied to the status.
gen_min_unconditional(P, m, t) == m[t].gen_power >= 0

\* 2. Generator limits
gen_min(P, m, t) ==
    m[t].gen_power >= P.config.diesel_min_stable_kw * m[t].gen_status

gen_max(P, m, t) ==
    m[t].gen_power <= P.config.diesel_capacity_kw * m[t].gen_status

\* The mutant: the flows of the first step enter the state of charge too.
soc_rhs_from_start(P, m, t) ==
    (IF t = 0 THEN P.initial_soc ELSE m[t - 1].bat_soc)
        + m[t].bat_charge * (2 * P.eff.num * P.eff.num)
        - m[t].bat_discharge * (2 * P.eff.den * P.eff.den)

\* 3. Battery physics: the right-hand side of soc_tracking, times SocScale
soc_rhs(P, m, t) ==
    IF t = 0 THEN P.initial_soc
    ELSE m[t - 1].bat_soc
            + m[t].bat_charge * (2 * P.eff.num * P.eff.num)
            - m[t].bat_discharge * (2 * P.eff.den * P.eff.den)

soc_tracking(P, m, t) == m[t].bat_soc = soc_rhs(P, m, t)

bat_limits(P, m, t) ==
    m[t].bat_soc <= P.config.battery_capacity_kwh * SocScale(P.config)

\* 4. Battery rate limits
rate_limit_charge(P, m, t) == m[t].bat_charge <= P.config.battery_power_kw

rate_limit_discharge(P, m, t) == m[t].bat_discharge <= P.config.battery_power_kw

\* 5. Solar limit
solar_limit(P, m, t) == m[t].solar_curtailed <= P.available_solar[t]

\* The mutant: the final state of charge is only kept non-negative.
final_soc_unanchored(P, m) == m[P.T - 1].bat_soc >= 0

\* 6. Sustainability
final_soc(P, m) == m[P.T - 1].bat_soc >= P.initial_soc

-----------------------------------------------------------------------------
(* The assignments that satisfy the constraints *)

\* Extensions of m (defined on 0..t-1) to index t that satisfy every constraint
\* indexed by t.  bat_soc is the one value soc_tracking allows.
Extensions(P, m, t) ==
    LET at(v) == Put(m, t, v)
        Cs == {c \in NonNegativeReals : rate_limit_charge(P, at(Var(0, 0, c, 0, 0, 0)), t)}
        Ds == {d \in NonNegativeReals : rate_limit_discharge(P, at(Var(0, 0, 0, d, 0, 0)), t)}
        Ks == {k \in NonNegativeReals : solar_limit(P, at(Var(0, 0, 0, 0, 0, k)), t)}
        GS == {gs \in Binary \X NonNegativeReals :
                  /\ gen_min(P, at(Var(gs[1], gs[2], 0, 0, 0, 0)), t)
                  /\ gen_max(P, at(Var(gs[1], gs[2], 0, 0, 0, 0)), t)}
        CD == {cd \in Cs \X Ds :
                  LET soc == soc_rhs(P, at(Var(0, 0, cd[1], cd[2], 0, 0)), t)
                  IN  /\ soc >= 0
                      /\ bat_limits(P, at(Var(0, 0, cd[1], cd[2], soc, 0)), t)}
        Full(gs, cd, k) ==
            at(Var(gs[1], gs[2], cd[1], cd[2],
                   soc_rhs(P, at(Var(0, 0, cd[1], cd[2], 0, 0)), t), k))
    IN  UNION { UNION { {x \in {Full(gs, cd, k) : gs \in GS} :
                            energy_balance(P, x, t)}
                        : k \in Ks }
                : cd \in CD }

RECURSIVE Partial(_, _)
Partial(P, t) ==
    IF t < 0 THEN {<<>>}
    ELSE UNION {Extensions(P, m, t) : m \in Partial(P, t - 1)}

Feasible(P) == {m \in Partial(P, P.T - 1) : final_soc(P, m)}

\* m, an assignment of values of the variables' domains, satisfies every
\* constraint of the model
Satisfies(P, m) ==
    /\ \A t \in 0..(P.T - 1) :
          /\ energy_balance(P, m, t)
          /\ gen_min(P, m, t) /\ gen_max(P, m, t)
          /\ soc_tracking(P, m, t) /\ bat_limits(P, m, t)
          /\ rate_limit_charge(P, m, t) /\ rate_limit_discharge(P, m, t)
          /\ solar_limit(P, m, t)
    /\ final_soc(P, m)

-----------------------------------------------------------------------------
(* Objective *)

RECURSIVE Sum(_, _)
Sum(f, S) ==
    IF S = {} THEN 0
    ELSE LET x == CHOOSE y \in S : TRUE IN f[x] + Sum(f, S \ {x})

\* total_cost + penalty in units of 5e-6 $ (every term is a multiple of 50)
Objective(P, m) ==
    LET T == 0..(P.T - 1)
        total_cost == Sum([t \in T |-> m[t].gen_status * (P.intercept_cost \div 50)
                                        + (m[t].gen_power \div 50) * P.slope_cost], T)
        penalty == Sum([t \in T |-> 100000 * (m[t].solar_curtailed \div 50)], T)
    IN  total_cost + penalty

\* the assignments of F with the least objective value
Optimal(P, F) ==
    LET cost == [m \in F |-> Objective(P, m)]
    IN  {m \in F : \A y \in F : cost[m] <= cost[y]}

-----------------------------------------------------------------------------
(* Data sets and configurations the runs are started with *)

Row(mo, h, load, pu) == [month |-> mo, hour |-> h, load_kw |-> load, solar_pu |-> pu]

\* one month of hourly rows from a sequence of <<load_kw, solar_pu>>
Month(mo, lp) == [i \in 1..Len(lp) |-> Row(mo, i - 1, lp[i][1], lp[i][2])]

\* Scenario A: 200 kW for four hours, no solar
ScenarioA == Month(1, <<<<200, 0>>, <<200, 0>>, <<200, 0>>, <<200, 0>>>>)

\* Scenario C: a load above diesel capacity + battery power + solar
ScenarioC == Month(1, <<<<800, 0>>>>)

OneHour == Month(1, <<<<200, 0>>>>)

SolarDay == Month(1, <<<<100, 100>>, <<200, 0>>, <<0, 100>>>>)

Evening == Month(1, <<<<0, 0>>, <<150, 0>>, <<50, 0>>>>)

\* timestamps that go backwards
Shuffled == <<Row(1, 5, 200, 0), Row(1, 3, 200, 0)>>

NoBattery == [DefaultConfig EXCEPT !.battery_capacity_kwh = 0]

SmallPlant ==
    [DefaultConfig EXCEPT !.battery_capacity_kwh = 200, !.battery_power_kw = 100,
                          !.solar_capacity_kw = 100]

MiniPlant ==
    [DefaultConfig EXCEPT !.battery_capacity_kwh = 200, !.battery_power_kw = 50,
                          !.solar_capacity_kw = 100]

\* a lossy battery behind a small generator, at a given fuel curve, price and tax
Lossy(slope, price, tax) ==
    [DefaultConfig EXCEPT !.battery_efficiency = [num |-> 1, den |-> 2],
                          !.battery_power_kw = 200, !.diesel_capacity_kw = 350,
                          !.diesel_slope_L_kwh = slope, !.fuel_price_per_L = price,
                          !.carbon_tax_per_ton = tax]

CarbonTaxes == {0, 95}

\* a small lossy battery under a solar array, and two hours of sun without load
SmallBattery ==
    [DefaultConfig EXCEPT !.battery_efficiency = [num |-> 1, den |-> 2],
                          !.battery_capacity_kwh = 100, !.battery_power_kw = 200,
                          !.solar_capacity_kw = 150]

Surplus == Month(1, <<<<0, 100>>, <<0, 100>>>>)

\* configurations that break an invariant of the configuration
MinAboveCapacity == [DefaultConfig EXCEPT !.diesel_min_stable_kw = 600]

NegativePower == [DefaultConfig EXCEPT !.battery_power_kw = -50]

NoMinStable ==
    [k \in DOMAIN DefaultConfig \ {"diesel_min_stable_kw"} |-> DefaultConfig[k]]

DirectRuns ==
    {<<None, OneHour>>, <<NoBattery, ScenarioA>>, <<DefaultConfig, ScenarioC>>,
     <<SmallPlant, SolarDay>>, <<MinAboveCapacity, OneHour>>,
     <<NegativePower, OneHour>>, <<NoMinStable, OneHour>>,
     <<DefaultConfig, <<>> >>, <<DefaultConfig, Shuffled>>,
     <<SmallBattery, Surplus>>}
    \cup {<<Lossy(30, 220000, tax), Evening>> : tax \in CarbonTaxes}
    \cup {<<Lossy(24, 100000, tax), Evening>> : tax \in CarbonTaxes}

\* the monthly profiles a year is made of
Profiles == {<<<<0, 0>>, <<0, 100>>>>, <<<<200, 0>>>>, <<<<800, 0>>>>}

RECURSIVE Years(_)
Years(n) ==
    IF n = 0 THEN {<<>>}
    ELSE {y \o Month(n, lp) : y \in Years(n - 1), lp \in Profiles}

AnnualRuns == {<<MiniPlant, y>> : y \in UNION {Years(n) : n \in 1..MaxMonths}}

-----------------------------------------------------------------------------
(* run_annual_analysis.main and MicrogridOptimizer.build_and_solve *)

RECURSIVE unique(_)
unique(s) ==
    IF s = <<>> THEN <<>>
    ELSE LET front == unique(SubSeq(s, 1, Len(s) - 1))
             x == s[Len(s)]
         IN  IF \E i \in 1..Len(front) : front[i] = x THEN front
             ELSE Append(front, x)

index_month(df) == [i \in 1..Len(df) |-> df[i].month]

Init ==
    /\ \E run \in DirectRuns \cup AnnualRuns :
          /\ cfg = run[1]
          /\ config = init(run[1])
          /\ df_full = run[2]
          /\ \/ /\ run \in AnnualRuns
                /\ caller = "annual"
                /\ months = unique(index_month(run[2]))
                /\ pc = "loop"
                /\ df_horizon = None
             \/ /\ run \in DirectRuns
                /\ caller = "direct"
                /\ months = <<>>
                /\ pc = "build"
                /\ df_horizon = run[2]
    /\ mi = 1
    /\ model = None
    /\ sol = None
    /\ result = None
    /\ res = None
    /\ annual_res = <<>>
    /\ totals = None
    /\ error = NoError

\* The mutant: the loop body is wrapped in try/except again.
except_everything == {"KeyError", "RuntimeError", "ValueError", "ApplicationError"}

\* the exception types caught around the build_and_solve call
except_clauses == {}

\* an exception leaves build_and_solve
Raise(e) ==
    /\ model' = None
    /\ sol' = None
    /\ res' = None
    /\ IF caller = "annual" /\ e \in except_clauses
       THEN /\ pc' = "loop"
            /\ mi' = mi + 1
            /\ error' = error
       ELSE /\ pc' = "crashed"
            /\ mi' = mi
            /\ error' = e

\* for m in months: df_month = ...; if df_month.empty: continue; build_and_solve(df_month)
ForMonth ==
    /\ pc = "loop"
    /\ mi <= Len(months)
    /\ LET m == months[mi]
           df_month == SelectSeq(df_full, LAMBDA r : r.month = m)
       IN  IF df_month = <<>>
           THEN /\ mi' = mi + 1
                /\ UNCHANGED <<pc, df_horizon>>
           ELSE /\ df_horizon' = df_month
                /\ pc' = "build"
                /\ mi' = mi
    /\ UNCHANGED <<cfg, config, df_full, months, model, sol, result, res,
                   annual_res, totals, error, caller>>

\* model construction: parameters, variables, constraints, objective
Build ==
    /\ pc = "build"
    /\ IF len(df_horizon) = 0 \/ ~(RequiredKeys \subseteq DOMAIN config)
       THEN /\ Raise("KeyError")
            /\ result' = result
       ELSE /\ model' = ConcreteModel(config, df_horizon)
            /\ pc' = "solve"
            /\ result' = None
            /\ UNCHANGED <<mi, sol, res, error>>
    /\ UNCHANGED <<cfg, config, df_full, months, df_horizon, annual_res, totals,
                   caller>>

\* what the engine may hand back: every feasible assignment, with the
\* termination it reports for it (a certified optimum, or an incumbent accepted
\* at the relative gap or the time limit)
Solutions(P) ==
    LET F == Feasible(P)
        best == Optimal(P, F)
    IN  {<<m, "optimal">> : m \in best} \cup {<<m, "feasible">> : m \in F \ best}

\* solver.solve(model) loads an assignment the engine accepts
Solve ==
    /\ pc = "solve"
    /\ \E s \in Solutions(model) :
          /\ sol' = s[1]
          /\ result' = [termination |-> s[2]]
    /\ pc' = "export"
    /\ UNCHANGED <<cfg, config, df_full, months, mi, df_horizon, model, res,
                   annual_res, totals, error, caller>>

\* no assignment satisfies the constraints: nothing can be loaded
SolveInfeasible ==
    /\ pc = "solve"
    /\ Feasible(model) = {}
    /\ result' = [termination |-> "infeasible"]
    /\ \E e \in {"RuntimeError", "ValueError"} : Raise(e)
    /\ UNCHANGED <<cfg, config, df_full, months, df_horizon, annual_res, totals,
                   caller>>

\* the engine itself fails
SolveError ==
    /\ pc = "solve"
    /\ result' = None
    /\ \E e \in {"RuntimeError", "ApplicationError"} : Raise(e)
    /\ UNCHANGED <<cfg, config, df_full, months, df_horizon, annual_res, totals,
                   caller>>

\* the result table, one row per row of df_horizon
Table(P, df, m) ==
    [i \in 1..Len(df) |->
        [month         |-> df[i].month,
         hour          |-> df[i].hour,
         gen_power     |-> m[i - 1].gen_power,
         gen_status    |-> m[i - 1].gen_status,
         bat_soc       |-> m[i - 1].bat_soc,
         bat_discharge |-> m[i - 1].bat_discharge,
         bat_charge    |-> m[i - 1].bat_charge,
         solar_used    |-> P.available_solar[i - 1] - m[i - 1].solar_curtailed,
         load          |-> P.load_demand[i - 1]]]

Export ==
    /\ pc = "export"
    /\ res' = Table(model, df_horizon, sol)
    /\ pc' = "return"
    /\ UNCHANGED <<cfg, config, df_full, months, mi, df_horizon, model, sol,
                   result, annual_res, totals, error, caller>>

\* return res; in the loop: annual_res.append(res)
Return ==
    /\ pc = "return"
    /\ IF caller = "annual"
       THEN /\ annual_res' = Append(annual_res, res)
            /\ mi' = mi + 1
            /\ pc' = "loop"
       ELSE /\ pc' = "returned"
            /\ UNCHANGED <<annual_res, mi>>
    /\ model' = None
    /\ sol' = None
    /\ UNCHANGED <<cfg, config, df_full, months, df_horizon, result, res,
                   totals, error, caller>>

RECURSIVE Concat(_)
Concat(tables) ==
    IF tables = <<>> THEN <<>>
    ELSE Concat(SubSeq(tables, 1, Len(tables) - 1)) \o tables[Len(tables)]

\* opt_fuel in 1/100 L
opt_fuel(df_opt, c) ==
    LET I == 1..Len(df_opt)
    IN  Sum([i \in I |-> df_opt[i].gen_status], I) * c.diesel_intercept_L_hr
          + Sum([i \in I |-> df_opt[i].gen_power], I) * c.diesel_slope_L_kwh

\* df_opt = pd.concat(annual_res) and the annual totals
Consolidate ==
    /\ pc = "loop"
    /\ mi > Len(months)
    /\ IF annual_res = <<>>
       THEN /\ error' = "ValueError"
            /\ pc' = "crashed"
            /\ totals' = totals
       ELSE /\ totals' = [hours    |-> Len(Concat(annual_res)),
                          opt_fuel |-> opt_fuel(Concat(annual_res), cfg)]
            /\ pc' = "done"
            /\ error' = error
    /\ UNCHANGED <<cfg, config, df_full, months, mi, df_horizon, model, sol,
                   result, res, annual_res, caller>>

Next ==
    \/ ForMonth
    \/ Build
    \/ Solve
    \/ SolveInfeasible
    \/ SolveError
    \/ Export
    \/ Return
    \/ Consolidate

Spec == Init /\ [][Next]_vars

-----------------------------------------------------------------------------
(* Properties *)

\* every result table the run holds: the one just built and the collected ones
Returned == (IF pc = "return" THEN {res} ELSE {}) \cup {annual_res[i] : i \in 1..Len(annual_res)}

\* C1: in every row of every returned table the power is balanced,
\* gen_power + bat_discharge + solar_used = load + bat_charge, where solar_used
\* is the available solar solar_pu * solar_capacity_kw less the curtailed
\* solar and load is the input load_kw.
C1_PowerBalance ==
    /\ \A tab \in Returned : \A i \in 1..Len(tab) :
          tab[i].gen_power + tab[i].bat_discharge + tab[i].solar_used
              = tab[i].load + tab[i].bat_charge
    /\ pc = "return" =>
          /\ Len(res) = Len(df_horizon)
          /\ \A i \in 1..Len(res) :
                /\ res[i].load = df_horizon[i].load_kw
                /\ 100 * res[i].solar_used
                      = df_horizon[i].solar_pu
                            * (IF "solar_capacity_kw" \in DOMAIN config
                               THEN config.solar_capacity_kw ELSE 400)
                          - 100 * sol[i - 1].solar_curtailed

\* a table was returned in which solar is partly used and partly curtailed while
\* the battery charges
C1_Witness ==
    /\ pc = "return"
    /\ \E i \in 1..Len(res) :
          /\ res[i].solar_used > 0
          /\ sol[i - 1].solar_curtailed > 0
          /\ res[i].bat_charge > 0

\* C2: in every returned row the generator is inside its unit-commitment
\* envelope: off means zero power, on means a power between
\* diesel_min_stable_kw and diesel_capacity_kw, and no power lies strictly
\* between zero and the minimum stable load.
C2_GeneratorEnvelope ==
    \A tab \in Returned : \A i \in 1..Len(tab) :
        /\ tab[i].gen_status \in {0, 1}
        /\ tab[i].gen_status = 0 => tab[i].gen_power = 0
        /\ tab[i].gen_status = 1 =>
              /\ config.diesel_min_stable_kw <= tab[i].gen_power
              /\ tab[i].gen_power <= config.diesel_capacity_kw
        /\ ~(0 < tab[i].gen_power /\ tab[i].gen_power < config.diesel_min_stable_kw)

\* a returned table has the generator off in one hour and on in another
C2_Witness ==
    /\ pc = "return"
    /\ \E i, j \in 1..Len(res) :
          /\ res[i].gen_status = 0
          /\ res[j].gen_status = 1
          /\ res[j].gen_power >= config.diesel_min_stable_kw

\* C3: every returned table (of any length T >= 1) starts at half the battery
\* capacity, keeps the state of charge within [0, battery_capacity_kwh],
\* follows bat_soc[t] = bat_soc[t-1] + bat_charge[t]*eta - bat_discharge[t]/eta
\* for t > 0, and ends no lower than it started.  (bat_soc is in units of
\* 1/(2*num*den) kWh, eta = num/den.)
C3_StateOfCharge ==
    LET num == config.battery_efficiency.num
        den == config.battery_efficiency.den
    IN  \A tab \in Returned :
          /\ Len(tab) >= 1
          /\ tab[1].bat_soc = num * den * config.battery_capacity_kwh
          /\ \A i \in 1..Len(tab) :
                /\ 0 <= tab[i].bat_soc
                /\ tab[i].bat_soc <= 2 * num * den * config.battery_capacity_kwh
                /\ i > 1 =>
                      tab[i].bat_soc
                          = tab[i - 1].bat_soc + 2 * num * num * tab[i].bat_charge
                                               - 2 * den * den * tab[i].bat_discharge
          /\ tab[Len(tab)].bat_soc >= tab[1].bat_soc

\* a two-hour table that charged a lossy battery has been collected and a
\* one-hour table (T = 1) is being returned
C3_Witness ==
    /\ pc = "return"
    /\ Len(res) = 1
    /\ config.battery_efficiency.num < config.battery_efficiency.den
    /\ \E k \in 1..Len(annual_res) :
          /\ Len(annual_res[k]) = 2
          /\ annual_res[k][2].bat_charge > 0
          /\ annual_res[k][2].bat_soc > annual_res[k][1].bat_soc

\* C4: in Scenario A (200 kW for four hours, no solar, battery capacity 0)
\* every cost-minimal dispatch runs the generator at 200 kW in every hour,
\* hour 0 included, with no battery activity and no curtailment.
C4_ScenarioA ==
    (/\ pc = "return"
     /\ config = NoBattery
     /\ df_horizon = ScenarioA
     /\ result.termination = "optimal")
        => \A t \in 0..3 :
              /\ sol[t].gen_status = 1
              /\ sol[t].gen_power = 200
              /\ sol[t].bat_charge = 0
              /\ sol[t].bat_discharge = 0
              /\ sol[t].solar_curtailed = 0

\* some hour's load is above diesel capacity + battery power + available solar
Overloaded ==
    /\ df_horizon # None
    /\ RequiredKeys \subseteq DOMAIN config
    /\ \E i \in 1..Len(df_horizon) :
          100 * df_horizon[i].load_kw
              > 100 * (config.diesel_capacity_kw + config.battery_power_kw)
                  + df_horizon[i].solar_pu * solar_cap(config)

\* the exceptions an engine failure surfaces as
EngineFailures == {"RuntimeError", "ApplicationError"}

\* C5: a horizon with an hour of load above diesel capacity + battery power +
\* available solar yields no result table and ends the call with an outcome
\* the caller can tell apart from an engine failure.
C5_InfeasibleReported ==
    Overloaded =>
        /\ pc \notin {"export", "return", "returned"}
        /\ res = None
        /\ pc = "crashed" => error \notin EngineFailures

\* the invariant of the configuration: every parameter present, magnitudes
\* non-negative, min stable <= capacity, 0 < efficiency <= 1
ConfigInvariant(c) ==
    /\ RequiredKeys \subseteq DOMAIN c
    /\ \A k \in DOMAIN c \ {"battery_efficiency"} : c[k] >= 0
    /\ c.diesel_min_stable_kw <= c.diesel_capacity_kw
    /\ 0 < c.battery_efficiency.num
    /\ c.battery_efficiency.num <= c.battery_efficiency.den

\* a horizon of at least one row with strictly increasing hourly timestamps
HorizonInvariant(df) ==
    /\ Len(df) >= 1
    /\ \A i \in 2..Len(df) :
          /\ df[i].month = df[i - 1].month
          /\ df[i].hour = df[i - 1].hour + 1

\* C6: with a configuration that breaks its invariant or a horizon that is
\* empty or not uniformly hourly, the call fails with ConfigurationError or
\* InputError before the solver is invoked, and returns no table.
C6_FailFast ==
    (/\ pc # "loop"
     /\ df_horizon # None \/ caller = "direct"
     /\ ~ConfigInvariant(config) \/ ~HorizonInvariant(df_horizon))
        => /\ pc \in {"build", "crashed"}
           /\ result = None
           /\ res = None
           /\ pc = "crashed" => error \in {"ConfigurationError", "InputError"}

\* the optimal dispatches of the horizon in hand under another carbon tax
OptimalAt(tax) ==
    LET P == ConcreteModel([config EXCEPT !.carbon_tax_per_ton = tax], df_horizon)
    IN  Optimal(P, Feasible(P))

DieselEnergy(m) == Sum([t \in DOMAIN m |-> m[t].gen_power], DOMAIN m)

\* litres of fuel, in 1/100 L
DieselFuel(m) ==
    Sum([t \in DOMAIN m |-> m[t].gen_status * config.diesel_intercept_L_hr
                              + m[t].gen_power * config.diesel_slope_L_kwh], DOMAIN m)

\* an optimal dispatch has been returned and the tax could have been lower
TaxRaised(c1) ==
    /\ pc = "return"
    /\ caller = "direct"
    /\ result.termination = "optimal"
    /\ "carbon_tax_per_ton" \in DOMAIN config
    /\ c1 < config.carbon_tax_per_ton

\* C7 as claimed: with everything else fixed, an optimal dispatch under a
\* higher carbon tax never has more total diesel energy than an optimal
\* dispatch under a lower one.
C7_DieselEnergyMonotone ==
    \A c1 \in CarbonTaxes :
        TaxRaised(c1) => \A y \in OptimalAt(c1) : DieselEnergy(sol) <= DieselEnergy(y)

\* C7 as amended: with everything else fixed, an optimal dispatch under a
\* higher carbon tax never burns more fuel (intercept * hours on + slope *
\* energy) than an optimal dispatch under a lower one.
C7_DieselFuelMonotone ==
    \A c1 \in CarbonTaxes :
        TaxRaised(c1) => \A y \in OptimalAt(c1) : DieselFuel(sol) <= DieselFuel(y)

\* an optimal dispatch under the higher tax is compared with an optimal
\* dispatch under the lower tax that generates a different diesel energy
C7_Witness ==
    \E c1 \in CarbonTaxes :
        /\ TaxRaised(c1)
        /\ \E y \in OptimalAt(c1) : DieselEnergy(y) # DieselEnergy(sol)

DataMonths == {df_full[i].month : i \in 1..Len(df_full)}

\* C9: the annual totals are only ever computed from a year whose every month
\* was solved: after a month fails the run is over, with no totals, and totals
\* cover one table per month of the data, each with all the month's hours.
C9_NoFailedMonthInTotals ==
    /\ pc = "crashed" => totals = None
    /\ totals # None =>
          /\ error = NoError
          /\ Len(annual_res) = Cardinality(DataMonths)
          /\ \A mo \in DataMonths : \E k \in 1..Len(annual_res) :
                /\ \A i \in 1..Len(annual_res[k]) : annual_res[k][i].month = mo
                /\ Len(annual_res[k])
                      = Len(SelectSeq(df_full, LAMBDA r : r.month = mo))
          /\ totals.hours = Len(df_full)

\* a month failed after an earlier month had been solved and collected
C9_Witness ==
    /\ caller = "annual"
    /\ pc = "crashed"
    /\ error # NoError
    /\ annual_res # <<>>
    /\ totals = None

\* C10: in every dispatch that satisfies the constraints, the energy withdrawn
\* from the battery over the whole horizon, hour 0 included, does not exceed
\* the energy put into it: sum of bat_discharge/eta <= sum of bat_charge*eta.
C10_NoNetWithdrawal ==
    pc = "export" =>
        LET num == config.battery_efficiency.num
            den == config.battery_efficiency.den
            T == DOMAIN sol
        IN  Sum([t \in T |-> den * den * sol[t].bat_discharge], T)
                <= Sum([t \in T |-> num * num * sol[t].bat_charge], T)

\* both battery flows are positive in step t
Simultaneous(m, t) == m[t].bat_charge > 0 /\ m[t].bat_discharge > 0

\* a certified optimum of a model with a lossy battery has been loaded
LossyOptimum ==
    /\ pc = "export"
    /\ result.termination = "optimal"
    /\ model.eff.num < model.eff.den

\* m with x kW more on both battery flows of step t
Circulate(m, t, x) ==
    Put(m, t, [m[t] EXCEPT !.bat_charge = @ + x, !.bat_discharge = @ + x])

\* charge and discharge are bounded by battery_power_kw each and by nothing
\* that ties one to the other: circulating more power through the battery in
\* step 0, within the two bounds, keeps an assignment feasible
NotExclusive ==
    \A x \in NonNegativeReals :
        (/\ rate_limit_charge(model, Circulate(sol, 0, x), 0)
         /\ rate_limit_discharge(model, Circulate(sol, 0, x), 0))
            => Satisfies(model, Circulate(sol, 0, x))

\* C11 as claimed: charge and discharge are bounded independently and are not
\* mutually exclusive, but whenever the battery is lossy and the model is
\* feasible some cost-minimal dispatch has no step with both bat_charge > 0
\* and bat_discharge > 0.
C11_ExclusiveOptimum ==
    LossyOptimum =>
        /\ NotExclusive
        /\ \E m \in Optimal(model, Feasible(model)) :
              \A t \in DOMAIN m : ~Simultaneous(m, t)

\* C11 as amended: charge and discharge are bounded independently and are not
\* mutually exclusive, and whenever the battery is lossy and the model is
\* feasible some cost-minimal dispatch has bat_charge = 0 or bat_discharge = 0
\* in step 0; in a later step both may be positive in every cost-minimal
\* dispatch.
C11_ExclusiveAtStart ==
    LossyOptimum =>
        /\ NotExclusive
        /\ \E m \in Optimal(model, Feasible(model)) : ~Simultaneous(m, 0)

\* the loaded optimum of a lossy battery charges only in step 0 and both
\* charges and discharges in a later step, while surplus solar is on offer
C11_Witness ==
    /\ LossyOptimum
    /\ sol[0].bat_charge > 0
    /\ ~Simultaneous(sol, 0)
    /\ \E t \in DOMAIN sol :
          t > 0 /\ Simultaneous(sol, t) /\ model.available_solar[t] > model.load_demand[t]

====
